---- MODULE Spec2Model ----
(***************************************************************************)
(* gitignore.lol: the request pipeline of src/app/main.py (src/main.py is  *)
(* the same pipeline without the browser redirect of the root path).       *)
(*                                                                         *)
(* Text is a sequence of one-character strings, so that join, splitlines,  *)
(* lower, strip, split and capitalize are computed as Python computes      *)
(* them.  A template line of the fixed alias payload is one opaque         *)
(* newline-free token.                                                     *)
(***************************************************************************)
EXTENDS Integers, Sequences, FiniteSets, TLC

VARIABLES
    sections,         \* post_process_contents called alone: the argument `contents`
    processed,        \* ... <<>> before the call, <<result>> after it
    repo,             \* the directory REPO_DIR: absent, or its files
    wrapper_inline,   \* what a direct call of the decorated update_repository does (see CheckRepository)
    c_file_list,      \* cache entries of get_file_list (it has no arguments: at most one)
    c_file_contents,  \* cache entries of get_file_contents: <<lang, file_list>> -> text
    c_root,           \* cache entries of root (its key leaves the request out: at most one)
    req,              \* the GET /{languages} request being served, or the last one served
    root_seen,        \* the last request to the root path and its answer
    prev,             \* history: the request served before req, when it was for the same identifiers
    refresh           \* history: the mirror the last successful run left, and whether a run failed since

vars == <<sections, processed, repo, wrapper_inline, c_file_list, c_file_contents, c_root,
          req, root_seen, prev, refresh>>

(***************************************************************************)
(* Bounds of the model.                                                    *)
(***************************************************************************)
MaxSections == 2
MaxLen == 2
MaxLangs == 3

(***************************************************************************)
(* Characters.                                                             *)
(***************************************************************************)
NL == "\n"
CR == "\r"

RECURSIVE Join(_, _)
\* sep.join(parts)
Join(sep, parts) ==
    IF parts = <<>> THEN <<>>
    ELSE IF Len(parts) = 1 THEN parts[1]
    ELSE parts[1] \o sep \o Join(sep, Tail(parts))

RECURSIVE SplitLinesFrom(_, _, _, _)
\* str.splitlines(): "\n", "\r" and "\r\n" end a line; the line breaks are
\* dropped, and text that ends with a line break has no empty last line.
SplitLinesFrom(s, i, cur, acc) ==
    IF i > Len(s) THEN (IF cur = <<>> THEN acc ELSE Append(acc, cur))
    ELSE IF s[i] = NL THEN SplitLinesFrom(s, i + 1, <<>>, Append(acc, cur))
    ELSE IF s[i] = CR THEN
        SplitLinesFrom(s, (IF i < Len(s) /\ s[i + 1] = NL THEN i + 2 ELSE i + 1),
                       <<>>, Append(acc, cur))
    ELSE SplitLinesFrom(s, i + 1, Append(cur, s[i]), acc)

splitlines(s) == SplitLinesFrom(s, 1, <<>>, <<>>)

\* A plausible slip: a line is blanked only when the line before it is the same.
BlankRepeatsAdjacent(lines) ==
    [i \in 1..Len(lines) |->
        IF i > 1 /\ lines[i - 1] = lines[i] THEN <<>> ELSE lines[i]]

\* The loop of post_process_contents: line i is blanked when it occurred before.
BlankRepeats(lines) ==
    [i \in 1..Len(lines) |->
        IF \E j \in 1..(i - 1) : lines[j] = lines[i] THEN <<>> ELSE lines[i]]

post_process_contents(contents) ==
    Join(<<NL>>, BlankRepeats(splitlines(Join(<<NL>>, contents))))

(***************************************************************************)
(* Python's str methods, on sequences of characters.                       *)
(***************************************************************************)
UpperLetters == <<"A", "B", "C", "D", "E", "F", "G", "H", "I", "J", "K", "L", "M", "N", "O", "P", "Q", "R", "S", "T", "U", "V", "W", "X", "Y", "Z">>
LowerLetters == <<"a", "b", "c", "d", "e", "f", "g", "h", "i", "j", "k", "l", "m", "n", "o", "p", "q", "r", "s", "t", "u", "v", "w", "x", "y", "z">>
Whitespace == {" ", "\t", NL, CR}

LowerChar(c) ==
    IF \E i \in 1..Len(UpperLetters) : UpperLetters[i] = c
    THEN LowerLetters[CHOOSE i \in 1..Len(UpperLetters) : UpperLetters[i] = c]
    ELSE c

UpperChar(c) ==
    IF \E i \in 1..Len(LowerLetters) : LowerLetters[i] = c
    THEN UpperLetters[CHOOSE i \in 1..Len(LowerLetters) : LowerLetters[i] = c]
    ELSE c

\* str.lower()
lower(s) == [i \in 1..Len(s) |-> LowerChar(s[i])]

\* str.capitalize(): the first character upper-cased, every other one lower-cased
capitalize(s) == [i \in 1..Len(s) |-> IF i = 1 THEN UpperChar(s[i]) ELSE LowerChar(s[i])]

\* str.strip(): leading and trailing whitespace removed
strip(s) ==
    LET keep == {i \in 1..Len(s) : s[i] \notin Whitespace}
    IN  IF keep = {} THEN <<>>
        ELSE SubSeq(s, CHOOSE i \in keep : \A j \in keep : i <= j,
                       CHOOSE i \in keep : \A j \in keep : j <= i)

RECURSIVE SplitFrom(_, _, _, _, _)
SplitFrom(s, sep, i, cur, acc) ==
    IF i > Len(s) THEN Append(acc, cur)
    ELSE IF s[i] = sep THEN SplitFrom(s, sep, i + 1, <<>>, Append(acc, cur))
    ELSE SplitFrom(s, sep, i + 1, Append(cur, s[i]), acc)

\* str.split(sep) for a one-character separator
split(s, sep) == SplitFrom(s, sep, 1, <<>>, <<>>)

\* sub in s
Contains(sub, s) ==
    \E i \in 1..(Len(s) - Len(sub) + 1) : SubSeq(s, i, i + Len(sub) - 1) = sub

EndsWith(s, suffix) ==
    /\ Len(s) >= Len(suffix)
    /\ SubSeq(s, Len(s) - Len(suffix) + 1, Len(s)) = suffix

\* [x for x in xs if x]
RECURSIVE NonEmpty(_)
NonEmpty(xs) ==
    IF xs = <<>> THEN <<>>
    ELSE IF Head(xs) = <<>> THEN NonEmpty(Tail(xs))
    ELSE <<Head(xs)>> \o NonEmpty(Tail(xs))

(***************************************************************************)
(* The program's constants.                                                *)
(***************************************************************************)
SUFFIX == <<".", "g", "i", "t", "i", "g", "n", "o", "r", "e">>

\* IDEA_STRING: five lines, the last one without a line break.
IDEA_STRING ==
    << "#  JetBrains specific template is maintained in a separate JetBrains.gitignore that can", NL,
       "#  be found at https://github.com/github/gitignore/blob/main/Global/JetBrains.gitignore", NL,
       "#  and can be added to the global gitignore or merged into this file.  For a more nuclear", NL,
       "#  option (not recommended) you can uncomment the following to ignore the entire idea folder.", NL,
       ".idea/" >>

JETBRAINS_STRINGS ==
    { <<"i", "d", "e", "a">>,
      <<"p", "y", "c", "h", "a", "r", "m">>,
      <<"w", "e", "b", "s", "t", "o", "r", "m">>,
      <<"p", "h", "p", "s", "t", "o", "r", "m">>,
      <<"r", "i", "d", "e", "r">>,
      <<"g", "o", "l", "a", "n", "d">>,
      <<"i", "n", "t", "e", "l", "l", "i", "j">>,
      <<"a", "p", "p", "c", "o", "d", "e">>,
      <<"c", "l", "i", "o", "n">>,
      <<"d", "a", "t", "a", "g", "r", "i", "p">>,
      <<"r", "e", "s", "h", "a", "r", "p", "e", "r">>,
      <<"r", "u", "s", "t", "r", "o", "v", "e", "r">> }

redirect_agents ==
    { <<"M", "o", "z", "i", "l", "l", "a">>,
      <<"O", "p", "e", "r", "a">>,
      <<"C", "h", "r", "o", "m", "e">>,
      <<"S", "a", "f", "a", "r", "i">>,
      <<"E", "d", "g", "e">>,
      <<"F", "i", "r", "e", "f", "o", "x">>,
      <<"M", "S", "I", "E">> }

BadRequest == 400
NotFound == 404
Unavailable == 500
InternalServerError == 500
OK == 200
Redirect == 302

(***************************************************************************)
(* The local mirror REPO_DIR: absent, or the checked-out files of one      *)
(* commit of the remote.  A file system that tells upper case from lower   *)
(* case in names is modelled (the one the service is deployed on).         *)
(***************************************************************************)
NoFiles == [n \in {} |-> <<>>]
NoRepo == [exists |-> FALSE, commit |-> "none"]
Mirror(commit) == [exists |-> TRUE, commit |-> commit]

F_GO == <<"G", "o">> \o SUFFIX
F_R == <<"R">> \o SUFFIX
F_CMAKE == <<"C", "M", "a", "k", "e">> \o SUFFIX
F_IDEA == <<"I", "d", "e", "a">> \o SUFFIX
F_LICENSE == <<"L", "I", "C", "E", "N", "S", "E">>

\* The commits of the remote a clone or a pull can bring, and their files.
CatA == (F_GO :> <<"x", NL>>) @@ (F_R :> <<"y", NL>>) @@ (F_CMAKE :> <<"x", NL>>)
            @@ (F_LICENSE :> <<"l", NL>>)
CatB == (F_GO :> <<"y", NL>>) @@ (F_R :> <<"x", NL>>) @@ (F_IDEA :> <<"z", NL>>)
Commits == {"A", "B", "E"}
Files(r) ==
    IF ~r.exists THEN NoFiles
    ELSE IF r.commit = "A" THEN CatA
    ELSE IF r.commit = "B" THEN CatB
    ELSE NoFiles

\* repo_path.glob('*.gitignore'), then file.name.lower(); nothing is found
\* in a directory that does not exist.
ListFiles(r) ==
    IF r.exists THEN {lower(n) : n \in {m \in DOMAIN Files(r) : EndsWith(m, SUFFIX)}}
    ELSE {}

Done(status, detail, text) == [status |-> status, detail |-> detail, text |-> text]
Returned(text) == Done(OK, "", text)
Raised(status, detail) == Done(status, detail, <<>>)

Header(name) ==
    <<"# ------------- ">> \o name \o <<" -------------", NL, NL>>

\* A plausible slip: the catalog is consulted before the alias group.
get_file_contents_catalog_first(lang, r, file_list) ==
    LET name == IF ~Contains(SUFFIX, lang) THEN lang \o SUFFIX ELSE lang
    IN  IF name \notin file_list
        THEN (IF lang \in JETBRAINS_STRINGS THEN Returned(IDEA_STRING)
              ELSE Raised(NotFound, "Could not find language file"))
        ELSE IF r.exists /\ capitalize(name) \in DOMAIN Files(r)
        THEN Returned(Header(capitalize(name)) \o Files(r)[capitalize(name)])
        ELSE Raised(InternalServerError, "FileNotFoundError")

\* The body of get_file_contents, read against the mirror r.  open() of a
\* name the directory does not hold raises FileNotFoundError, which no
\* handler catches: the request ends with status 500.
get_file_contents(lang, r, file_list) ==
    IF lang \in JETBRAINS_STRINGS THEN Returned(IDEA_STRING)
    ELSE LET name == IF ~Contains(SUFFIX, lang) THEN lang \o SUFFIX ELSE lang
         IN  IF name \notin file_list
             THEN Raised(NotFound, "Could not find language file")
             ELSE IF r.exists /\ capitalize(name) \in DOMAIN Files(r)
             THEN Returned(Header(capitalize(name)) \o Files(r)[capitalize(name)])
             ELSE Raised(InternalServerError, "FileNotFoundError")

\* The first lines of get_language_ignore_file: the identifiers of a path.
ParseLanguages(languages) ==
    LET langs == strip(lower(languages))
    IN  NonEmpty(IF "," \in {langs[i] : i \in 1..Len(langs)}
                 THEN split(langs, ",")
                 ELSE <<langs>>)

\* partial_string_in_list
partial_string_in_list(partial_string, list_of_strings) ==
    \E string \in list_of_strings : Contains(string, partial_string)

(***************************************************************************)
(* The cache.  @cache(expire=300) keeps a function's result under a key    *)
(* made of the function and its arguments; FastAPICache.init installs a    *)
(* new, empty InMemoryBackend.  post_process_contents is cached under its  *)
(* whole argument and computes its result from that argument alone, so a   *)
(* cached result is the computed one and its entries are not kept here.    *)
(***************************************************************************)
NoEntries == [k \in {} |-> <<>>]

\* A plausible slip: update_repository leaves the cache as it is.
KeepCache == [file_list |-> c_file_list, file_contents |-> c_file_contents, root |-> c_root]

\* FastAPICache.init(InMemoryBackend())
FastAPICache_init == [file_list |-> {}, file_contents |-> NoEntries, root |-> {}]

\* A plausible slip: a failed run removes the directory it could not update.
MirrorRemovedOnFailure(r) == NoRepo

\* update_repository raising in pull() or clone_from(): nothing in it touches
\* REPO_DIR on the way out.
MirrorAfterFailedRun(r) == r

\* What clone_from or pull can do: fail, or bring a state of the remote.
Failure == [ok |-> FALSE, commit |-> "none"]
Outcomes == {Failure} \cup {[ok |-> TRUE, commit |-> c] : c \in Commits}

(***************************************************************************)
(* check_repository.  The name update_repository is bound to the wrapper   *)
(* that repeat_every returns, and the startup handler has to return for    *)
(* the service to start: a call of the wrapper either runs one round of    *)
(* the body before it returns (wrapper_inline, the reading check_repository*)
(* is written for) or only schedules the rounds and returns at once.       *)
(***************************************************************************)
CheckRepository(outcome) ==
    IF repo.exists THEN [found |-> TRUE, repo |-> repo, reset |-> FALSE]
    ELSE IF ~wrapper_inline THEN [found |-> TRUE, repo |-> repo, reset |-> FALSE]
    ELSE IF outcome.ok THEN [found |-> TRUE, repo |-> Mirror(outcome.commit), reset |-> TRUE]
    ELSE [found |-> FALSE, repo |-> MirrorAfterFailedRun(repo), reset |-> TRUE]

\* get_file_list, behind its cache.
GetFileList(outcome) ==
    IF c_file_list # {}
    THEN [ok |-> TRUE, list |-> CHOOSE l \in c_file_list : TRUE, repo |-> repo,
          reset |-> FALSE, hit |-> TRUE]
    ELSE LET c == CheckRepository(outcome)
         IN  [ok |-> c.found, list |-> IF c.found THEN ListFiles(c.repo) ELSE {},
              repo |-> c.repo, reset |-> c.reset, hit |-> FALSE]

\* The outcomes the environment can choose for a call of get_file_list.
CallOutcomes ==
    IF c_file_list = {} /\ ~repo.exists /\ wrapper_inline THEN Outcomes ELSE {Failure}

(***************************************************************************)
(* GET /{languages}, a coroutine: one step for each await of the handler.  *)
(***************************************************************************)
NoResp == Done(0, "", <<>>)
Idle == [pc |-> "idle", path |-> <<>>, langs |-> <<>>, file_list |-> {}, contents |-> <<>>,
         resp |-> NoResp, views |-> {}, torn |-> FALSE, hit |-> FALSE, after_failed |-> FALSE]
NoPrev == [some |-> FALSE, resp |-> NoResp]

\* The handler up to its first await: the identifiers, or 400.
StartWith(languages, track) ==
    /\ req.pc = "idle" \/ (track /\ req.pc = "done")
    /\ LET langs == ParseLanguages(languages)
       IN  /\ req' = [Idle EXCEPT !.path = languages, !.langs = langs,
                          !.after_failed = refresh.failed,
                          !.pc = IF langs = <<>> THEN "done" ELSE "list",
                          !.resp = IF langs = <<>>
                                   THEN Raised(BadRequest, "No languages provided")
                                   ELSE NoResp]
           /\ prev' = IF track /\ req.pc = "done" /\ ~req.torn /\ req.langs = langs
                      THEN [some |-> TRUE, resp |-> req.resp]
                      ELSE NoPrev
    /\ UNCHANGED <<sections, processed, repo, wrapper_inline, c_file_list, c_file_contents,
                   c_root, root_seen, refresh>>

\* file_list = await get_file_list()
List ==
    /\ req.pc = "list"
    /\ \E outcome \in CallOutcomes :
         LET g == GetFileList(outcome)
             init == IF g.reset THEN FastAPICache_init
                     ELSE [file_list |-> c_file_list, file_contents |-> c_file_contents,
                           root |-> c_root]
         IN  /\ repo' = g.repo
             /\ c_file_list' = IF g.ok THEN {g.list} ELSE init.file_list
             /\ c_file_contents' = init.file_contents
             /\ c_root' = init.root
             /\ refresh' = IF g.reset /\ g.ok
                           THEN [last_good |-> g.repo, failed |-> FALSE]
                           ELSE refresh
             /\ prev' = IF g.repo # repo THEN NoPrev ELSE prev
             /\ req' = IF g.ok
                       THEN [req EXCEPT !.pc = "read", !.file_list = g.list,
                                        !.views = @ \cup {g.repo},
                                        !.torn = @ \/ g.repo # repo,
                                        !.hit = @ \/ g.hit]
                       ELSE [req EXCEPT !.pc = "done",
                                        !.views = @ \cup {g.repo},
                                        !.resp = Raised(Unavailable, "Could not find repository")]
    /\ UNCHANGED <<sections, processed, wrapper_inline, root_seen>>

\* contents.append(await get_file_contents(lang, repo_path, file_list))
Read ==
    /\ req.pc = "read"
    /\ LET lang == req.langs[Len(req.contents) + 1]
           key == <<lang, req.file_list>>
           cached == key \in DOMAIN c_file_contents
           got == IF cached THEN Returned(c_file_contents[key])
                  ELSE get_file_contents(lang, repo, req.file_list)
       IN  /\ c_file_contents' = IF ~cached /\ got.status = OK
                                 THEN c_file_contents @@ (key :> got.text)
                                 ELSE c_file_contents
           /\ req' = IF got.status = OK
                     THEN [req EXCEPT !.contents = Append(@, got.text),
                                      !.pc = IF Len(req.contents) + 1 = Len(req.langs)
                                             THEN "post" ELSE "read",
                                      !.views = IF lang \in JETBRAINS_STRINGS THEN @
                                                ELSE @ \cup {repo},
                                      !.hit = @ \/ cached]
                     ELSE [req EXCEPT !.pc = "done", !.resp = got,
                                      !.views = @ \cup {repo}]
    /\ UNCHANGED <<sections, processed, repo, wrapper_inline, c_file_list, c_root,
                   root_seen, prev, refresh>>

\* The response is sent and the request is over.
Close ==
    /\ req.pc = "done"
    /\ req' = Idle
    /\ UNCHANGED <<sections, processed, repo, wrapper_inline, c_file_list, c_file_contents,
                   c_root, root_seen, prev, refresh>>

\* joined_contents = await post_process_contents(contents); the response
Finish ==
    /\ req.pc = "post"
    /\ req' = [req EXCEPT !.pc = "done",
                          !.resp = Returned(post_process_contents(req.contents))]
    /\ UNCHANGED <<sections, processed, repo, wrapper_inline, c_file_list, c_file_contents,
                   c_root, root_seen, prev, refresh>>

(***************************************************************************)
(* update_repository, one round of the loop repeat_every runs (at startup  *)
(* and every 24 hours after): the round's exception is logged by the loop, *)
(* not raised.  Time is not kept: a round can run between any two steps.   *)
(***************************************************************************)
RunSucceeds ==
    \E c \in Commits :
        /\ repo' = Mirror(c)
        /\ c_file_list' = FastAPICache_init.file_list
        /\ c_file_contents' = FastAPICache_init.file_contents
        /\ c_root' = FastAPICache_init.root
        /\ refresh' = [last_good |-> Mirror(c), failed |-> FALSE]
        /\ req' = [req EXCEPT !.torn = @ \/ (req.pc # "idle" /\ Mirror(c) # repo)]
        /\ prev' = IF Mirror(c) # repo THEN NoPrev ELSE prev
        /\ UNCHANGED <<sections, processed, wrapper_inline, root_seen>>

RunFails ==
    /\ repo' = MirrorAfterFailedRun(repo)
    /\ c_file_list' = FastAPICache_init.file_list
    /\ c_file_contents' = FastAPICache_init.file_contents
    /\ c_root' = FastAPICache_init.root
    /\ refresh' = [refresh EXCEPT !.failed = @ \/ repo.exists]
    /\ req' = [req EXCEPT !.torn = @ \/ (req.pc # "idle" /\ repo' # repo)]
    /\ prev' = IF repo' # repo THEN NoPrev ELSE prev
    /\ UNCHANGED <<sections, processed, wrapper_inline, root_seen>>

(***************************************************************************)
(* expire=300: an entry is dropped 300 seconds after it was stored.        *)
(***************************************************************************)
ExpireFileList ==
    /\ c_file_list # {}
    /\ c_file_list' = {}
    /\ UNCHANGED <<sections, processed, repo, wrapper_inline, c_file_contents, c_root, req,
                   root_seen, prev, refresh>>

ExpireFileContents ==
    \E key \in DOMAIN c_file_contents :
        /\ c_file_contents' = [k \in DOMAIN c_file_contents \ {key} |-> c_file_contents[k]]
        /\ UNCHANGED <<sections, processed, repo, wrapper_inline, c_file_list, c_root, req,
                       root_seen, prev, refresh>>

ExpireRoot ==
    /\ c_root # {}
    /\ c_root' = {}
    /\ UNCHANGED <<sections, processed, repo, wrapper_inline, c_file_list, c_file_contents,
                   req, root_seen, prev, refresh>>

(***************************************************************************)
(* GET / and GET /available.                                               *)
(***************************************************************************)
RECURSIVE RemoveAll(_, _)
\* s.replace(sub, "")
RemoveAll(s, sub) ==
    IF Len(s) < Len(sub) THEN s
    ELSE IF SubSeq(s, 1, Len(sub)) = sub THEN RemoveAll(SubSeq(s, Len(sub) + 1, Len(s)), sub)
    ELSE <<Head(s)>> \o RemoveAll(Tail(s), sub)

Answer(status, detail, available) ==
    [status |-> status, detail |-> detail, available |-> available]

\* list_of_available_languages, given what its get_file_list returned
Available(g) ==
    IF g.ok THEN Answer(OK, "", {RemoveAll(f, SUFFIX) : f \in g.list})
    ELSE Answer(Unavailable, "Could not find repository", {})

NoHeaders == [h \in {} |-> <<>>]
UserAgent(ua) == "user-agent" :> ua
UserAgents == { <<"c", "u", "r", "l", "/", "8">>,
                <<"M", "o", "z", "i", "l", "l", "a", "/", "5">>,
                <<"x", "E", "d", "g", "e">>,
                <<"m", "o", "z", "i", "l", "l", "a">> }
Clients == {NoHeaders} \cup {UserAgent(ua) : ua \in UserAgents}
NoRoot == [route |-> "", headers |-> NoHeaders, resp |-> Answer(0, "", {}),
           available |-> Answer(0, "", {})]

\* The state a call of get_file_list leaves, with `root` the entries of root after it.
AfterFileList(g, root) ==
    /\ repo' = g.repo
    /\ c_file_list' = IF g.ok THEN {g.list}
                      ELSE IF g.reset THEN FastAPICache_init.file_list ELSE c_file_list
    /\ c_file_contents' = IF g.reset THEN FastAPICache_init.file_contents ELSE c_file_contents
    /\ c_root' = root
    /\ refresh' = IF g.reset /\ g.ok THEN [last_good |-> g.repo, failed |-> FALSE] ELSE refresh
    /\ req' = [req EXCEPT !.torn = @ \/ (req.pc # "idle" /\ g.repo # repo)]
    /\ prev' = IF g.repo # repo THEN NoPrev ELSE prev

\* GET /available
AvailableRequest ==
    \E headers \in Clients, outcome \in CallOutcomes :
        LET g == GetFileList(outcome)
        IN  /\ AfterFileList(g, IF g.reset THEN FastAPICache_init.root ELSE c_root)
            /\ root_seen' = [route |-> "/available", headers |-> headers,
                             resp |-> Available(g), available |-> Available(g)]
            /\ UNCHANGED <<sections, processed, wrapper_inline>>

\* GET /: the key of its cache entry is made of the function and of its
\* arguments other than the request, so every client shares one entry.
RootRequest ==
    \E headers \in Clients, outcome \in CallOutcomes :
        LET g == GetFileList(outcome)
            same == /\ UNCHANGED <<repo, c_file_list, c_file_contents, c_root, req, prev,
                                   refresh>>
        IN  /\ IF c_root # {}
               THEN /\ root_seen' = [route |-> "/", headers |-> headers,
                                     resp |-> CHOOSE a \in c_root : TRUE,
                                     available |-> Available(g)]
                    /\ same
               ELSE IF "user-agent" \notin DOMAIN headers
               THEN /\ root_seen' = [route |-> "/", headers |-> headers,
                                     resp |-> Answer(InternalServerError, "KeyError", {}),
                                     available |-> Available(g)]
                    /\ same
               ELSE IF partial_string_in_list(headers["user-agent"], redirect_agents)
               THEN /\ root_seen' = [route |-> "/", headers |-> headers,
                                     resp |-> Answer(Redirect, "/docs", {}),
                                     available |-> Available(g)]
                    /\ c_root' = {Answer(Redirect, "/docs", {})}
                    /\ UNCHANGED <<repo, c_file_list, c_file_contents, req, prev, refresh>>
               ELSE /\ root_seen' = [route |-> "/", headers |-> headers,
                                     resp |-> Available(g), available |-> Available(g)]
                    /\ AfterFileList(g, IF g.ok THEN {Available(g)}
                                        ELSE IF g.reset THEN FastAPICache_init.root
                                        ELSE c_root)
            /\ UNCHANGED <<sections, processed, wrapper_inline>>

(***************************************************************************)
(* post_process_contents called alone, on every short list of short texts. *)
(***************************************************************************)
DedupChars == {"a", NL, CR}
Texts(n) == UNION {[1..k -> DedupChars] : k \in 0..n}
SectionLists == UNION {[1..k -> Texts(MaxLen)] : k \in 0..MaxSections}

Process ==
    /\ processed = <<>>
    /\ processed' = <<post_process_contents(sections)>>
    /\ UNCHANGED <<sections, repo, wrapper_inline, c_file_list, c_file_contents, c_root, req,
                   root_seen, prev, refresh>>

(***************************************************************************)
(* The requests the environment sends.                                     *)
(***************************************************************************)
\* The entries a raw path is made of, joined with commas.
Entries == { <<"G", "o">>, <<"C", "M", "a", "k", "e">>, <<"i", "d", "e", "a">>, <<"z", "z">>, <<" ">>, <<>> }
RawPaths == {Join(<<",">>, es) : es \in UNION {[1..n -> Entries] : n \in 1..MaxLangs}}

\* The paths requested while the mirror is refreshed.
Requested == { <<"g", "o">>, <<"i", "d", "e", "a">>, <<"z", "z">>, <<"c", "m", "a", "k", "e">>, <<"g", "o", ",", "r">> }

Start ==
    /\ req.pc \in {"idle", "done"}
    /\ \E languages \in Requested : StartWith(languages, TRUE)

StartRaw ==
    /\ req.pc = "idle"
    /\ \E languages \in RawPaths : StartWith(languages, FALSE)

(***************************************************************************)
(* The specifications.                                                     *)
(***************************************************************************)
InitWith(mirrors, inline, inputs) ==
    /\ sections \in inputs
    /\ processed = <<>>
    /\ repo \in mirrors
    /\ wrapper_inline \in inline
    /\ c_file_list = {}
    /\ c_file_contents = NoEntries
    /\ c_root = {}
    /\ req = Idle
    /\ root_seen = NoRoot
    /\ prev = NoPrev
    /\ refresh = [last_good |-> repo, failed |-> FALSE]

Mirrors == {Mirror(c) : c \in Commits}

\* The service after the startup round of update_repository, which either
\* left a mirror or failed with none there; requests, rounds and expiries.
Init == InitWith({NoRepo} \cup Mirrors, BOOLEAN, {<<>>})
Next ==
    \/ Start
    \/ List
    \/ Read
    \/ Finish
    \/ RunSucceeds
    \/ RunFails
    \/ ExpireFileList
    \/ ExpireFileContents
Spec == Init /\ [][Next]_vars

\* One request after another against a mirror that is there and stays as it is.
InitServe == InitWith(Mirrors, {FALSE}, {<<>>})
NextServe ==
    \/ StartRaw
    \/ Close
    \/ List
    \/ Read
    \/ Finish
    \/ ExpireFileList
    \/ ExpireFileContents
SpecServe == InitServe /\ [][NextServe]_vars

\* The root path and /available.
InitRoot == InitWith({NoRepo} \cup Mirrors, BOOLEAN, {<<>>})
NextRoot ==
    \/ RootRequest
    \/ AvailableRequest
    \/ RunSucceeds
    \/ RunFails
    \/ ExpireFileList
    \/ ExpireRoot
SpecRoot == InitRoot /\ [][NextRoot]_vars

\* post_process_contents alone.
InitDedup == InitWith({NoRepo}, {FALSE}, SectionLists)
NextDedup == Process
SpecDedup == InitDedup /\ [][NextDedup]_vars

(***************************************************************************)
(* The handler run from its first line to its last against one mirror,     *)
(* with nothing cached and nothing in between.                             *)
(***************************************************************************)
RECURSIVE Resolve(_, _, _, _)
Resolve(langs, r, file_list, contents) ==
    IF langs = <<>> THEN Returned(post_process_contents(contents))
    ELSE LET got == get_file_contents(Head(langs), r, file_list)
         IN  IF got.status = OK
             THEN Resolve(Tail(langs), r, file_list, Append(contents, got.text))
             ELSE got

Serve(languages, r) ==
    LET langs == ParseLanguages(languages)
    IN  IF langs = <<>> THEN Raised(BadRequest, "No languages provided")
        ELSE Resolve(langs, r, ListFiles(r), <<>>)

(***************************************************************************)
(* C1.  post_process_contents keeps the line count and blanks repeats.     *)
(***************************************************************************)
C1_L == splitlines(Join(<<NL>>, sections))

\* Line i of L where it is the first occurrence, the empty line where it is a repeat.
C1_Expected ==
    [i \in 1..Len(C1_L) |->
        IF \E j \in 1..(i - 1) : C1_L[j] = C1_L[i] THEN <<>> ELSE C1_L[i]]

\* C1 as claimed: the output, read as lines the way L is read from the joined
\* sections, has as many lines as L, and line i is L[i] at its first
\* occurrence and empty at a repeat.
C1_AsClaimed ==
    processed # <<>> => splitlines(processed[1]) = C1_Expected

\* C1 amended: the output is those Len(L) lines joined by single "\n": cut at
\* every "\n" it gives exactly the lines of C1_Expected (and it is the empty
\* text when L has no line).  An empty last line therefore shows only as a
\* final "\n", or not at all when it is the only line.
C1_JoinedLinesKept ==
    processed # <<>> =>
        IF C1_L = <<>> THEN processed[1] = <<>>
        ELSE split(processed[1], NL) = C1_Expected

\* A repeat of a non-empty line at the end of L has been blanked.
C1_Witness ==
    /\ processed # <<>>
    /\ Len(C1_L) >= 3
    /\ C1_L[Len(C1_L)] # <<>>
    /\ C1_L[1] = C1_L[Len(C1_L)]
    /\ C1_L[2] # C1_L[1]

(***************************************************************************)
(* C2.  A catalog identifier resolves to header, blank line, stored text.  *)
(***************************************************************************)
C2_Covered(lang) ==
    /\ lang \notin JETBRAINS_STRINGS
    /\ (lang \o SUFFIX) \in ListFiles(repo)

C2_StoredContent(lang) ==
    Files(repo)[CHOOSE n \in DOMAIN Files(repo) : lower(n) = lang \o SUFFIX]

\* The section the claim describes.  The name in the header is taken in the
\* form the code gives it, the capitalized identifier with the suffix
\* ("Go.gitignore"), so that the header text alone refutes nothing.
C2_Section(lang) ==
    Header(capitalize(lang) \o SUFFIX) \o C2_StoredContent(lang)

\* C2 as claimed: for an identifier outside the alias group whose name plus
\* ".gitignore" is listed, get_file_contents succeeds, and the section is the
\* header naming the capitalized identifier, a blank line, and the stored
\* content of that template's file.
C2_AsClaimed ==
    /\ \A i \in 1..Len(req.contents) :
          C2_Covered(req.langs[i]) => req.contents[i] = C2_Section(req.langs[i])
    /\ (req.pc = "done" /\ Len(req.contents) < Len(req.langs)) =>
          ~C2_Covered(req.langs[Len(req.contents) + 1])

(***************************************************************************)
(* C3.  An alias resolves to IDEA_STRING whatever the catalog holds.       *)
(***************************************************************************)
\* C3: for every identifier of JETBRAINS_STRINGS and every catalog,
\* get_file_contents returns IDEA_STRING with no header, whether the listing
\* holds a like-named entry or not, and a request for one such identifier is
\* answered 200 with IDEA_STRING verbatim.
C3_AliasPayload ==
    /\ \A a \in JETBRAINS_STRINGS :
          /\ get_file_contents(a, repo, ListFiles(repo)) = Returned(IDEA_STRING)
          /\ get_file_contents(a, repo, {}) = Returned(IDEA_STRING)
          /\ get_file_contents(a, NoRepo, {}) = Returned(IDEA_STRING)
    /\ \A i \in 1..Len(req.contents) :
          req.langs[i] \in JETBRAINS_STRINGS => req.contents[i] = IDEA_STRING
    /\ (req.pc = "done" /\ Len(req.langs) = 1 /\ req.langs[1] \in JETBRAINS_STRINGS) =>
          req.resp = Returned(IDEA_STRING)

\* A request for "idea" alone has been answered while the catalog holds Idea.gitignore.
C3_Witness ==
    /\ req.pc = "done"
    /\ Len(req.langs) = 1
    /\ req.langs[1] \in JETBRAINS_STRINGS
    /\ (req.langs[1] \o SUFFIX) \in req.file_list
    /\ req.resp.text = IDEA_STRING

(***************************************************************************)
(* C4.  A path with no identifier in it is answered 400.                   *)
(***************************************************************************)
\* The identifiers of a path as the specification derives them: split on
\* commas, lower-case, trim every entry, drop the empty ones.
C4_Identifiers(path) ==
    LET entries == split(path, ",")
    IN  NonEmpty([i \in 1..Len(entries) |-> strip(lower(entries[i]))])

\* C4 as claimed: a path whose entries are all empty after trimming is
\* answered 400, and no identifier is resolved.
C4_AsClaimed ==
    (req.pc = "done" /\ C4_Identifiers(req.path) = <<>>) =>
        /\ req.resp.status = BadRequest
        /\ req.contents = <<>>

(***************************************************************************)
(* C5.  One unknown identifier makes the whole request a 404.              *)
(***************************************************************************)
C5_Unknown(lang) ==
    /\ lang \notin JETBRAINS_STRINGS
    /\ (lang \o SUFFIX) \notin ListFiles(repo)

\* C5 as claimed: a request with an identifier that is neither an alias nor
\* in the catalog ends with 404 and no text, wherever that identifier stands.
C5_AsClaimed ==
    (req.pc = "done" /\ \E i \in 1..Len(req.langs) : C5_Unknown(req.langs[i])) =>
        /\ req.resp.status = NotFound
        /\ req.resp.text = <<>>

(***************************************************************************)
(* C6.  A request reads one snapshot of the catalog.                       *)
(***************************************************************************)
\* C6 as claimed: the answer of a request served while the mirror is there
\* is the answer the handler gives on one of the mirror states it read:
\* all before a refresh or all after it, never a mix.
C6_AsClaimed ==
    (/\ req.pc = "done"
     /\ req.langs # <<>>
     /\ req.views # {}
     /\ \A v \in req.views : v.exists) =>
        \E v \in req.views : req.resp = Serve(req.path, v)

(***************************************************************************)
(* C7.  A failed refresh leaves the mirror and the answers as they were.   *)
(***************************************************************************)
\* C7: after a round of update_repository that failed with a mirror there,
\* the mirror is the one the last successful round left, and a request made
\* after the failure is answered as the handler answers on that mirror: the
\* failure itself reaches no request.
C7_StaleSnapshotServed ==
    /\ refresh.failed => repo = refresh.last_good
    /\ (req.pc = "done" /\ req.after_failed /\ ~req.torn) =>
          req.resp = Serve(req.path, refresh.last_good)

\* A request made after a failed round has been answered 200 from the mirror.
C7_Witness ==
    /\ req.pc = "done"
    /\ req.after_failed
    /\ refresh.failed
    /\ ~req.torn
    /\ req.resp.status = OK
    /\ Len(req.langs) = 2

(***************************************************************************)
(* C8.  Without a mirror every request is answered 500.                    *)
(***************************************************************************)
\* C8 as claimed: a request with at least one identifier, served while no
\* mirror exists and none could be made, ends with status 500.
C8_AsClaimed ==
    (/\ req.pc = "done"
     /\ req.langs # <<>>
     /\ req.views = {NoRepo}
     /\ ~repo.exists
     /\ ~req.torn) =>
        req.resp = Raised(Unavailable, "Could not find repository")

(***************************************************************************)
(* C9.  The root path answers by the client's own User-Agent.              *)
(***************************************************************************)
\* C9 as claimed: a root request whose User-Agent holds a browser marker is
\* redirected to /docs; any other one, a request without the header
\* included, gets what /available answers.
C9_AsClaimed ==
    root_seen.route = "/" =>
        IF /\ "user-agent" \in DOMAIN root_seen.headers
           /\ partial_string_in_list(root_seen.headers["user-agent"], redirect_agents)
        THEN root_seen.resp = Answer(Redirect, "/docs", {})
        ELSE root_seen.resp = root_seen.available

====
